---- MODULE Spec2Model ----
(***************************************************************************)
(* Model of scripts/generate_overload/generate_overloads.py:               *)
(* OverloadGenerator and ClassMethodOverloadGenerator.                     *)
(*                                                                         *)
(* Python strings are sequences of one-character strings, so that split,   *)
(* rstrip, strip and the bracket-depth scan of _create_type_annotation are *)
(* computed character by character as the code computes them.  ast nodes   *)
(* are records tagged with the node class in the field "kind".  A raised   *)
(* exception is the value Raised(<exception class>).                       *)
(***************************************************************************)
EXTENDS Integers, Sequences, FiniteSets, TLC

VARIABLES
    \* the attributes of the generator object (set by __init__)
    generator,      \* "OverloadGenerator" or "ClassMethodOverloadGenerator"
    function_name, mapping, key_param, additional_params, is_async,
    has_self, return_type_from_mapping, return_type_fallback, class_name,
    \* the last call made on the object and what it gave back
    call, result,
    \* a type expression on its own: a node built by hand, its text, the parse
    hand, type_str, parsed

genVars == <<generator, function_name, mapping, key_param, additional_params,
             is_async, has_self, return_type_from_mapping,
             return_type_fallback, class_name>>
callVars == <<call, result>>
typeVars == <<hand, type_str, parsed>>
vars == <<genVars, callVars, typeVars>>

\* Python's None
None == [kind |-> "None"]

\* an exception that left the call
Raised(exc) == [kind |-> "Raised", exc |-> exc]

IndexError == Raised("IndexError")

\* a str object held in a variable that may also hold None
Str(s) == [kind |-> "str", s |-> s]

----------------------------------------------------------------------------
(* Bounds *)

\* mapping entries per generator
MaxEntries == 2

\* characters of a free-form type string handed to the parser
MaxLen == 4

\* Name nodes of a type node built by hand
MaxNodes == 5

----------------------------------------------------------------------------
(* str methods used by the parser *)

\* c in s
Contains(s, c) == \E i \in 1..Len(s) : s[i] = c

\* s.index(c), 1-based; s is known to contain c
FirstIndex(s, c) == CHOOSE i \in 1..Len(s) : s[i] = c /\ \A j \in 1..(i-1) : s[j] # c

\* s.rstrip(c): every trailing c removed
RECURSIVE rstrip(_, _)
rstrip(s, c) ==
    IF Len(s) > 0 /\ s[Len(s)] = c THEN rstrip(SubSeq(s, 1, Len(s) - 1), c) ELSE s

\* s.lstrip() for the whitespace character of the alphabet
RECURSIVE lstrip(_)
lstrip(s) == IF Len(s) > 0 /\ s[1] = " " THEN lstrip(Tail(s)) ELSE s

\* s.strip()
strip(s) == lstrip(rstrip(s, " "))

----------------------------------------------------------------------------
(* ast nodes *)

Name(id) == [kind |-> "Name", id |-> id]
Tuple(elts) == [kind |-> "Tuple", elts |-> elts]
Subscript(value, slice) == [kind |-> "Subscript", value |-> value, slice |-> slice]
Constant(value) == [kind |-> "Constant", value |-> value]
Expr(value) == [kind |-> "Expr", value |-> value]
arg(name, annotation) == [kind |-> "arg", arg |-> name, annotation |-> annotation]
arguments(args) == [kind |-> "arguments", args |-> args]

\* a Python list held where an exception may be held instead
List(elts) == [kind |-> "list", elts |-> elts]

\* ast.Expr(value=ast.Constant(value=...)), the placeholder statement
Ellipsis == Expr(Constant("..."))

IsRaised(x) == x.kind = "Raised"

\* the first exception raised while the elements of xs were built in order
FirstRaised(xs) ==
    xs[CHOOSE i \in 1..Len(xs) : IsRaised(xs[i]) /\ \A j \in 1..(i-1) : ~IsRaised(xs[j])]

AnyRaised(xs) == \E i \in 1..Len(xs) : IsRaised(xs[i])

----------------------------------------------------------------------------
(* _create_type_annotation *)

\* The scan with every comma taken as a boundary, whatever the depth.
RECURSIVE ScanArgsIgnoringDepth(_, _, _, _, _)
ScanArgsIgnoringDepth(args, i, depth, current, arg_list) ==
    IF i > Len(args)
    THEN IF Len(current) > 0 THEN Append(arg_list, strip(current)) ELSE arg_list
    ELSE IF args[i] = ","
         THEN ScanArgsIgnoringDepth(args, i + 1, depth, <<>>, Append(arg_list, strip(current)))
         ELSE ScanArgsIgnoringDepth(args, i + 1, depth, Append(current, args[i]), arg_list)

\* The scan of the arguments text: the for loop over args from character i on,
\* with the loop's locals depth, current and arg_list, then the trailing flush
\* of a non-empty current.
RECURSIVE ScanArgs(_, _, _, _, _)
ScanArgs(args, i, depth, current, arg_list) ==
    IF i > Len(args)
    THEN IF Len(current) > 0 THEN Append(arg_list, strip(current)) ELSE arg_list
    ELSE IF args[i] = "["
         THEN ScanArgs(args, i + 1, depth + 1, Append(current, args[i]), arg_list)
         ELSE IF args[i] = "]"
         THEN ScanArgs(args, i + 1, depth - 1, Append(current, args[i]), arg_list)
         ELSE IF args[i] = "," /\ depth = 0
         THEN ScanArgs(args, i + 1, depth, <<>>, Append(arg_list, strip(current)))
         ELSE ScanArgs(args, i + 1, depth, Append(current, args[i]), arg_list)

\* type_str.split('[', 1): the text before the first "[" and the text after it
SplitBase(s) == SubSeq(s, 1, FirstIndex(s, "[") - 1)
SplitRest(s) == SubSeq(s, FirstIndex(s, "[") + 1, Len(s))

\* ast.Tuple(elts=[...]) and ast.Subscript(value=..., slice=...) once their
\* operands are evaluated: an exception raised by an operand leaves the call
TupleOrRaise(elts) == IF AnyRaised(elts) THEN FirstRaised(elts) ELSE Tuple(elts)
SubscriptOrRaise(value, slice) == IF IsRaised(slice) THEN slice ELSE Subscript(value, slice)

RECURSIVE _create_type_annotation(_), GenericAnnotation(_, _)

\* the return statement of the generic branch, given base and arg_list
GenericAnnotation(base, arg_list) ==
    IF Len(arg_list) > 1
    THEN SubscriptOrRaise(Name(strip(base)),
                          TupleOrRaise([i \in 1..Len(arg_list) |->
                                           _create_type_annotation(arg_list[i])]))
    ELSE IF Len(arg_list) = 0
    THEN IndexError      \* arg_list[0] of an empty list
    ELSE SubscriptOrRaise(Name(strip(base)), _create_type_annotation(arg_list[1]))

_create_type_annotation(s) ==
    IF Contains(s, "[")
    THEN GenericAnnotation(SplitBase(s),
                           ScanArgs(rstrip(SplitRest(s), "]"), 1, 0, <<>>, <<>>))
    ELSE Name(strip(s))

----------------------------------------------------------------------------
(* ast.unparse of the expression nodes *)

RECURSIVE JoinComma(_)
JoinComma(texts) ==
    IF Len(texts) = 0 THEN <<>>
    ELSE IF Len(texts) = 1 THEN texts[1]
    ELSE texts[1] \o <<",", " ">> \o JoinComma(Tail(texts))

RECURSIVE unparse(_)
unparse(node) ==
    IF node.kind = "Name" THEN node.id
    ELSE IF node.kind = "Subscript"
    THEN unparse(node.value) \o <<"[">> \o unparse(node.slice) \o <<"]">>
    ELSE JoinComma([i \in 1..Len(node.elts) |-> unparse(node.elts[i])])

----------------------------------------------------------------------------
(* Type expressions on their own: nodes built by hand and free-form text *)

Bases == {<<"A">>, <<"B", "c">>}

Alphabet == {"A", "[", "]", ",", " "}

\* a generic node as one builds it by hand: a single argument is the slice
\* itself, several arguments are a Tuple
Generic(base, type_args) ==
    Subscript(Name(base), IF Len(type_args) = 1 THEN type_args[1] ELSE Tuple(type_args))

\* the type nodes with exactly n Name nodes, and the non-empty argument
\* lists with m Name nodes in all
RECURSIVE Trees(_), Forests(_)
Trees(n) ==
    IF n = 1 THEN {Name(b) : b \in Bases}
    ELSE {Generic(b, f) : b \in Bases, f \in Forests(n - 1)}
Forests(m) ==
    UNION {{<<t>> \o f : t \in Trees(k),
                          f \in IF k = m THEN {<<>>} ELSE Forests(m - k)} : k \in 1..m}

HandNodes == UNION {Trees(n) : n \in 1..MaxNodes}

Strings == UNION {[1..k -> Alphabet] : k \in 0..MaxLen}

\* the generator object is not used while a type expression is looked at alone
IdleGenerator ==
    /\ generator = "OverloadGenerator"
    /\ function_name = "f"
    /\ mapping = <<>>
    /\ key_param = "resource_name"
    /\ additional_params = <<>>
    /\ is_async = FALSE
    /\ has_self = TRUE
    /\ return_type_from_mapping = TRUE
    /\ return_type_fallback = <<"A", "n", "y">>
    /\ class_name = None
    /\ call = None
    /\ result = None

InitParse ==
    /\ IdleGenerator
    /\ parsed = None
    /\ \/ hand \in HandNodes /\ type_str = None
       \/ hand = None /\ type_str \in {Str(s) : s \in Strings}

\* serialize the node built by hand
Unparse ==
    /\ hand # None
    /\ type_str' = Str(unparse(hand))
    /\ parsed' = None
    /\ UNCHANGED <<hand, genVars, callVars>>

\* parse the text at hand
Parse ==
    /\ type_str # None
    /\ parsed' = _create_type_annotation(type_str.s)
    /\ UNCHANGED <<hand, type_str, genVars, callVars>>

NextParse == Unparse \/ Parse

SpecParse == InitParse /\ [][NextParse]_vars

----------------------------------------------------------------------------
(* The values a mapping holds *)

\* mapping keys: str and int objects
KeyStr(s) == [type |-> "str", text |-> s, n |-> 0]
KeyInt(n) == [type |-> "int", text |-> <<>>, n |-> n]

\* mapping values: a class, a str, an int (neither class nor str)
ValClass(name) == [type |-> "type", text |-> name, n |-> 0]
ValStr(s) == [type |-> "str", text |-> s, n |-> 0]
ValInt(n) == [type |-> "int", text |-> <<>>, n |-> n]

Digits == <<"0", "1", "2", "3", "4", "5", "6", "7", "8", "9">>

\* str(n) of a non-negative int
RECURSIVE IntToStr(_)
IntToStr(n) ==
    IF n < 10 THEN <<Digits[n + 1]>>
    ELSE IntToStr(n \div 10) \o <<Digits[(n % 10) + 1]>>

\* str(x) of a key or a value
str(x) ==
    IF x.type = "str" THEN x.text
    ELSE IF x.type = "int" THEN IntToStr(x.n)
    ELSE <<"<", "c", "l", "a", "s", "s", " ", "'">> \o x.text \o <<"'", ">">>

----------------------------------------------------------------------------
(* Building the declarations *)

FunctionDef(class, name, args, body, decorator_list, returns) ==
    [kind |-> class, name |-> name, args |-> args, body |-> body,
     decorator_list |-> decorator_list, returns |-> returns]

ClassDef(name, body) == [kind |-> "ClassDef", name |-> name, body |-> body]

Module(body) == [kind |-> "Module", body |-> body]

_create_literal_annotation(value) ==
    Subscript(Name(<<"L", "i", "t", "e", "r", "a", "l">>), Constant(value))

\* ast.arg, ast.arguments and func_class(...) once their operands are
\* evaluated: an exception raised by an operand leaves the call
ArgOrRaise(name, annotation) ==
    IF IsRaised(annotation) THEN annotation ELSE arg(name, annotation)

ArgumentsOrRaise(args) ==
    IF AnyRaised(args) THEN FirstRaised(args) ELSE arguments(args)

FunctionDefOrRaise(class, name, args, body, decorator_list, returns) ==
    IF IsRaised(args) THEN args
    ELSE IF IsRaised(returns) THEN returns
    ELSE FunctionDef(class, name, args, body, decorator_list, returns)

\* _create_arguments with the discriminant parameter appended after the
\* additional parameters
_create_arguments_key_last(literal_value) ==
    ArgumentsOrRaise(
        (IF has_self THEN <<arg("self", None)>> ELSE <<>>)
        \o [i \in 1..Len(additional_params) |->
               ArgOrRaise(additional_params[i].name,
                          _create_type_annotation(additional_params[i].type))]
        \o <<arg(key_param, IF literal_value # None
                            THEN _create_literal_annotation(literal_value.s)
                            ELSE Name(<<"s", "t", "r">>))>>)

\* literal_value is None or a Str
_create_arguments(literal_value) ==
    ArgumentsOrRaise(
        (IF has_self THEN <<arg("self", None)>> ELSE <<>>)
        \o <<arg(key_param, IF literal_value # None
                            THEN _create_literal_annotation(literal_value.s)
                            ELSE Name(<<"s", "t", "r">>))>>
        \o [i \in 1..Len(additional_params) |->
               ArgOrRaise(additional_params[i].name,
                          _create_type_annotation(additional_params[i].type))])

\* _get_return_type_name without its last branch: str(value) for a value that
\* is neither a class nor a str
_get_return_type_name_no_fallback(value) ==
    IF ~return_type_from_mapping THEN str(value)
    ELSE IF value.type = "type" THEN value.text
    ELSE str(value)

_get_return_type_name(value) ==
    IF ~return_type_from_mapping THEN str(value)
    ELSE IF value.type = "type" THEN value.text
    ELSE IF value.type = "str" THEN value.text
    ELSE return_type_fallback

func_class == IF is_async THEN "AsyncFunctionDef" ELSE "FunctionDef"

\* _create_overload_function with an empty decorator_list
_create_overload_function_unmarked(key, return_type_name) ==
    FunctionDefOrRaise(func_class, function_name,
                       _create_arguments(Str(key)),
                       <<Ellipsis>>,
                       <<>>,
                       _create_type_annotation(return_type_name))

_create_overload_function(key, return_type_name) ==
    FunctionDefOrRaise(func_class, function_name,
                       _create_arguments(Str(key)),
                       <<Ellipsis>>,
                       <<Name(<<"o", "v", "e", "r", "l", "o", "a", "d">>)>>,
                       _create_type_annotation(return_type_name))

\* A body text is a sequence of lines; a line holds one simple statement, or
\* is blank, or holds only a comment.  ast.parse gives one statement node per
\* statement line, in order.
IsStatementLine(line) == line # "" /\ line # "# comment"

Stmt(line) == [kind |-> "stmt", source |-> line]

ast_parse(body_code) == SelectSeq(
    [i \in 1..Len(body_code.s) |->
        IF IsStatementLine(body_code.s[i]) THEN Stmt(body_code.s[i]) ELSE None],
    LAMBDA node : node # None)

\* _create_implementation_function testing "body_code is not None" where the
\* code tests the truth of body_code
_create_implementation_function_not_none(body_code) ==
    FunctionDefOrRaise(func_class, function_name,
                       _create_arguments(None),
                       IF body_code # None THEN ast_parse(body_code) ELSE <<Ellipsis>>,
                       <<>>,
                       _create_type_annotation(return_type_fallback))

\* body_code is None or a Str whose text is the sequence of its lines; the
\* text is empty (falsy) when it has no line at all
_create_implementation_function(body_code) ==
    FunctionDefOrRaise(func_class, function_name,
                       _create_arguments(None),
                       IF body_code # None /\ Len(body_code.s) > 0
                       THEN ast_parse(body_code)
                       ELSE <<Ellipsis>>,
                       <<>>,
                       _create_type_annotation(return_type_fallback))

\* the list built so far, or the exception that ended the call
ListOrRaise(elts) == IF AnyRaised(elts) THEN FirstRaised(elts) ELSE List(elts)

\* BuildFunctions walking the mapping from its last entry to its first
BuildFunctionsReversed(include_implementation, implementation_body) ==
    ListOrRaise(
        [i \in 1..Len(mapping) |->
            _create_overload_function(
                str(mapping[Len(mapping) + 1 - i].key),
                _get_return_type_name(mapping[Len(mapping) + 1 - i].value))]
        \o (IF include_implementation
            THEN <<_create_implementation_function(implementation_body)>>
            ELSE <<>>))

\* the loop over self.mapping.items() and the optional implementation: the
\* list functions (methods)
BuildFunctions(include_implementation, implementation_body) ==
    ListOrRaise(
        [i \in 1..Len(mapping) |->
            _create_overload_function(
                str(mapping[i].key),
                _get_return_type_name(mapping[i].value))]
        \o (IF include_implementation
            THEN <<_create_implementation_function(implementation_body)>>
            ELSE <<>>))

\* ast.Module(body=functions) of generate, and the module holding the class
\* of generate_class, unless building the functions raised
ModuleOrRaise(functions) ==
    IF IsRaised(functions) THEN functions ELSE Module(functions.elts)

ClassModuleOrRaise(methods, include_docstring) ==
    IF IsRaised(methods) THEN methods
    ELSE Module(<<ClassDef(class_name,
                           (IF include_docstring
                            THEN <<Expr(Constant(class_name \o <<" ", "\\u7c7b">>))>>
                            ELSE <<>>)
                           \o methods.elts)>>)

\* OverloadGenerator.generate: the module that ast.unparse renders, one
\* declaration per element of its body, in order
generate(include_implementation, implementation_body) ==
    ModuleOrRaise(BuildFunctions(include_implementation, implementation_body))

\* ClassMethodOverloadGenerator.generate_class
generate_class(include_implementation, implementation_body, include_docstring) ==
    ClassModuleOrRaise(BuildFunctions(include_implementation, implementation_body),
                       include_docstring)

----------------------------------------------------------------------------
(* The generator object and the calls made on it *)

Keys == {KeyStr(<<"a">>), KeyInt(1), KeyStr(<<"1">>)}

Values == {ValClass(<<"A">>), ValStr(<<"L", "[", "A", "]">>),
           ValStr(<<"X", "[", "]">>), ValInt(42)}

Entries == [key : Keys, value : Values]

\* dict objects in insertion order: the keys of a dict are distinct
Mappings ==
    {m \in UNION {[1..k -> Entries] : k \in 0..MaxEntries} :
        \A i, j \in 1..Len(m) : i # j => m[i].key # m[j].key}

Param(name, type) == [name |-> name, type |-> type]

AdditionalParams ==
    {<<>>,
     <<Param("page", <<"D", "[", "A", ",", " ", "B", "]">>),
       Param("id", <<"i", "n", "t">>)>>}

Fallbacks == {<<"A", "n", "y">>, <<"T">>}

\* implementation_body: not given, the empty text, a text of one comment line,
\* a text of two statements around a blank line
Bodies ==
    {None, Str(<<>>), Str(<<"# comment">>), Str(<<"x = 1", "", "return x">>)}

\* the (include_implementation, implementation_body) pairs of a call
ImplementationArgs ==
    {<<FALSE, None>>} \cup {<<TRUE, body>> : body \in Bodies}

\* OverloadGenerator.__init__ and ClassMethodOverloadGenerator.__init__
Init ==
    /\ generator \in {"OverloadGenerator", "ClassMethodOverloadGenerator"}
    /\ function_name = "f"
    /\ mapping \in Mappings
    /\ key_param = "resource_name"
    /\ additional_params \in AdditionalParams
    /\ is_async \in BOOLEAN
    /\ has_self \in IF generator = "ClassMethodOverloadGenerator"
                    THEN {TRUE} ELSE BOOLEAN
    /\ return_type_from_mapping \in BOOLEAN
    /\ return_type_fallback \in Fallbacks
    /\ class_name = IF generator = "ClassMethodOverloadGenerator"
                    THEN <<"K">> ELSE None
    /\ call = None
    /\ result = None
    /\ hand = None
    /\ type_str = None
    /\ parsed = None

\* generate and generate_class assign no attribute of the object, so a call
\* on an object that was called before starts from the attributes the first
\* call started from: as in the driver script, which constructs a generator
\* and calls it once, each object here takes one call.
Generate(include_implementation, implementation_body) ==
    /\ call = None
    /\ call' = [method |-> "generate",
                include_implementation |-> include_implementation,
                implementation_body |-> implementation_body]
    /\ result' = generate(include_implementation, implementation_body)
    /\ UNCHANGED <<genVars, typeVars>>

GenerateClass(include_implementation, implementation_body, include_docstring) ==
    /\ generator = "ClassMethodOverloadGenerator"
    /\ call = None
    /\ call' = [method |-> "generate_class",
                include_implementation |-> include_implementation,
                implementation_body |-> implementation_body,
                include_docstring |-> include_docstring]
    /\ result' = generate_class(include_implementation, implementation_body,
                                include_docstring)
    /\ UNCHANGED <<genVars, typeVars>>

Next ==
    \/ \E a \in ImplementationArgs : Generate(a[1], a[2])
    \/ \E a \in ImplementationArgs, doc \in BOOLEAN : GenerateClass(a[1], a[2], doc)

Spec == Init /\ [][Next]_vars

----------------------------------------------------------------------------
(* Reading a call's outcome *)

Called == call # None

\* the call returned its text instead of raising
Returned == Called /\ ~IsRaised(result)

IsFunctionDef(node) == node.kind \in {"FunctionDef", "AsyncFunctionDef"}

\* the function declarations of the output, in output order
Functions ==
    IF call.method = "generate" THEN result.body
    ELSE SelectSeq(result.body[1].body, IsFunctionDef)

OverloadMarker == Name(<<"o", "v", "e", "r", "l", "o", "a", "d">>)

HasOverloadMarker(decl) == \E i \in 1..Len(decl.decorator_list) :
                               decl.decorator_list[i] = OverloadMarker

\* the discriminant parameter of a declaration
KeyArg(decl) == decl.args.args[IF has_self THEN 2 ELSE 1]

\* the implementation declaration of an output that has one
Implementation == Functions[Len(Functions)]

IsIdentifier(s) == Len(s) > 0 /\ \A i \in 1..Len(s) : s[i] \notin {"[", "]", ",", " "}

----------------------------------------------------------------------------
(* C1 *)

\* C1 (as claimed): whatever the mapping and the configuration, generate()
\* emits exactly len(mapping) function declarations without the
\* implementation and len(mapping) + 1 with it.
C1_Cardinality ==
    (Called /\ call.method = "generate") =>
        /\ ~IsRaised(result)
        /\ Len(result.body) = Len(mapping)
                              + (IF call.include_implementation THEN 1 ELSE 0)

----------------------------------------------------------------------------
(* C2 *)

\* C2: the i-th declaration generate() emits is the overload built from the
\* i-th entry of the mapping (its key's literal, its value's return type), and
\* with include_implementation the one implementation declaration comes after
\* all the overloads.
C2_MappingOrder ==
    (Returned /\ call.method = "generate") =>
        /\ Len(result.body) >= Len(mapping)
        /\ \A i \in 1..Len(mapping) :
              /\ HasOverloadMarker(result.body[i])
              /\ KeyArg(result.body[i]).annotation
                     = Subscript(Name(<<"L", "i", "t", "e", "r", "a", "l">>),
                                 Constant(str(mapping[i].key)))
              /\ result.body[i].returns
                     = _create_type_annotation(
                           IF ~return_type_from_mapping THEN str(mapping[i].value)
                           ELSE IF mapping[i].value.type = "int"
                                THEN return_type_fallback
                                ELSE mapping[i].value.text)
        /\ call.include_implementation =>
              /\ Len(result.body) = Len(mapping) + 1
              /\ ~HasOverloadMarker(result.body[Len(mapping) + 1])
              /\ KeyArg(result.body[Len(mapping) + 1]).annotation
                     = Name(<<"s", "t", "r">>)

C2_Witness ==
    /\ Returned /\ call.method = "generate"
    /\ call.include_implementation
    /\ Len(mapping) = 2
    /\ mapping[1].key = KeyInt(1) /\ mapping[2].key = KeyStr(<<"a">>)
    /\ mapping[1].value = ValStr(<<"L", "[", "A", "]">>)
    /\ mapping[2].value = ValClass(<<"A">>)
    /\ Len(result.body) = 3
    /\ result.body[1].returns = Subscript(Name(<<"L">>), Name(<<"A">>))
    /\ result.body[2].returns = Name(<<"A">>)

----------------------------------------------------------------------------
(* C3 *)

\* C3 (as claimed): each overload types the discriminant parameter with the
\* literal type over exactly its entry's key, so two entries with distinct
\* keys get distinct literal types.
C3_DistinctLiterals ==
    (Returned /\ call.method = "generate") =>
        \A i, j \in 1..Len(mapping) :
            mapping[i].key # mapping[j].key =>
                KeyArg(result.body[i]).annotation # KeyArg(result.body[j]).annotation

----------------------------------------------------------------------------
(* C4, C5: under SpecParse *)

\* C4: a type node built by hand (an identifier base with zero or more
\* argument nodes, nested to any depth), serialized and parsed again, gives a
\* structurally equal node.
C4_RoundTrip ==
    (hand # None /\ parsed # None) => parsed = hand

C4_Witness ==
    /\ hand = Generic(<<"A">>, <<Generic(<<"B", "c">>, <<Name(<<"A">>), Name(<<"A">>)>>),
                                 Name(<<"B", "c">>)>>)
    /\ type_str = Str(<<"A", "[", "B", "c", "[", "A", ",", " ", "A", "]", ",", " ",
                        "B", "c", "]">>)
    /\ parsed = hand

\* C5 (as claimed): the parser returns a type node for every input text,
\* empty argument lists such as X[] and unbalanced brackets included, and
\* never fails.
C5_ParserTotal ==
    parsed # None => ~IsRaised(parsed)

----------------------------------------------------------------------------
(* C6 *)

\* the overload declarations of the entries whose value is neither a class
\* nor a str
FallbackEntries == {i \in 1..Len(mapping) : mapping[i].value.type = "int"}

\* C6 (as claimed): in every configuration, an entry whose value is neither a
\* class nor a str gets an overload whose return type is the fallback name.
C6_FallbackAlways ==
    Returned =>
        \A i \in FallbackEntries :
            Functions[i].returns = _create_type_annotation(return_type_fallback)

\* C6 (amended): with return_type_from_mapping set, the overload emitted for
\* an entry whose value is neither a class nor a str has the return type
\* parsed from the configured fallback name (the name itself when it is a
\* plain identifier); with return_type_from_mapping unset its return type is
\* the text str(value) instead.
C6_Fallback ==
    Returned =>
        \A i \in FallbackEntries :
            /\ Len(Functions) >= i
            /\ return_type_from_mapping =>
                  /\ Functions[i].returns = _create_type_annotation(return_type_fallback)
                  /\ IsIdentifier(return_type_fallback) =>
                         Functions[i].returns = Name(return_type_fallback)
            /\ ~return_type_from_mapping =>
                  Functions[i].returns = Name(IntToStr(mapping[i].value.n))

C6_Witness ==
    /\ Returned
    /\ return_type_from_mapping
    /\ return_type_fallback = <<"T">>
    /\ Len(mapping) = 2
    /\ mapping[2].value = ValInt(42)
    /\ Functions[2].returns = Name(<<"T">>)

----------------------------------------------------------------------------
(* C7 *)

\* C7: in every output of generate() and generate_class(), a declaration
\* carries the overload marker exactly when it is an overload declaration (one
\* of the first len(mapping)), every overload declaration has the placeholder
\* body whatever implementation body was passed, and the implementation
\* declaration carries no marker.
C7_OverloadMarker ==
    Returned =>
        /\ Len(Functions) >= Len(mapping)
        /\ \A i \in 1..Len(Functions) :
              /\ i <= Len(mapping) =>
                    /\ Functions[i].decorator_list = <<OverloadMarker>>
                    /\ Functions[i].body = <<Ellipsis>>
              /\ i > Len(mapping) => Functions[i].decorator_list = <<>>

C7_Witness ==
    /\ Returned
    /\ call.method = "generate_class"
    /\ call.include_implementation
    /\ call.implementation_body = Str(<<"x = 1", "", "return x">>)
    /\ Len(mapping) = 2
    /\ Len(Functions) = 3
    /\ Functions[2].body = <<Ellipsis>>
    /\ Functions[3].body # <<Ellipsis>>
    /\ HasOverloadMarker(Functions[2])
    /\ ~HasOverloadMarker(Functions[3])

----------------------------------------------------------------------------
(* C8 *)

\* C8: every emitted declaration has its parameters in the fixed order: the
\* untyped receiver first exactly when has_self is set, then the one
\* discriminant parameter named key_param, then the configured additional
\* parameters in configured order with their configured types.
C8_ParameterOrder ==
    Returned =>
        \A i \in 1..Len(Functions) :
            LET a == Functions[i].args.args
                off == IF has_self THEN 1 ELSE 0
            IN  /\ Len(a) = off + 1 + Len(additional_params)
                /\ (a[1] = arg("self", None)) <=> has_self
                /\ a[off + 1].arg = key_param
                /\ a[off + 1].annotation # None
                /\ \A k \in 1..Len(additional_params) :
                      /\ a[off + 1 + k].arg = additional_params[k].name
                      /\ unparse(a[off + 1 + k].annotation) = additional_params[k].type

C8_Witness ==
    /\ Returned
    /\ has_self
    /\ Len(additional_params) = 2
    /\ call.include_implementation
    /\ Len(Functions) = 3
    /\ \A i \in 1..3 :
          /\ Functions[i].args.args[1].arg = "self"
          /\ Functions[i].args.args[2].arg = "resource_name"
          /\ Functions[i].args.args[3].arg = "page"
          /\ Functions[i].args.args[4].arg = "id"

----------------------------------------------------------------------------
(* C9 *)

\* C9 (as claimed): the implementation declaration's body is the supplied
\* text's statements, in order, whenever a text is supplied (the empty text
\* included) and the placeholder only when none is supplied; its discriminant
\* parameter has the type str and its return type is the fallback name.
C9_BodyWheneverSupplied ==
    (Returned /\ call.include_implementation) =>
        /\ call.implementation_body # None =>
               Implementation.body = ast_parse(call.implementation_body)
        /\ call.implementation_body = None => Implementation.body = <<Ellipsis>>
        /\ KeyArg(Implementation).annotation = Name(<<"s", "t", "r">>)
        /\ Implementation.returns = _create_type_annotation(return_type_fallback)

\* C9 (amended): the implementation declaration's body is the supplied text's
\* statements, in order, whenever a non-empty text is supplied, and the
\* placeholder when no text or the empty text is supplied; its discriminant
\* parameter has the type str and its return type is the fallback name.
C9_ImplementationBody ==
    (Returned /\ call.include_implementation) =>
        /\ Len(Functions) = Len(mapping) + 1
        /\ call.implementation_body \in {None, Str(<<>>)} =>
               Implementation.body = <<Ellipsis>>
        /\ call.implementation_body = Str(<<"# comment">>) =>
               Implementation.body = <<>>
        /\ call.implementation_body = Str(<<"x = 1", "", "return x">>) =>
               Implementation.body = <<Stmt("x = 1"), Stmt("return x")>>
        /\ call.implementation_body \notin {None, Str(<<>>)} =>
               Implementation.body = ast_parse(call.implementation_body)
        /\ KeyArg(Implementation).annotation = Name(<<"s", "t", "r">>)
        /\ Implementation.returns = _create_type_annotation(return_type_fallback)
        /\ IsIdentifier(return_type_fallback) =>
               Implementation.returns = Name(return_type_fallback)

C9_Witness ==
    /\ Returned
    /\ call.include_implementation
    /\ call.implementation_body = Str(<<"x = 1", "", "return x">>)
    /\ Len(mapping) = 1
    /\ Implementation.body = <<Stmt("x = 1"), Stmt("return x")>>
    /\ Implementation.returns = Name(<<"A", "n", "y">>)

----------------------------------------------------------------------------
(* C10 *)

\* C10 (as claimed): every function declaration and every class declaration
\* that generate() or generate_class() emits has a body of at least one
\* statement.
C10_NonEmptyBodies ==
    Returned =>
        /\ \A i \in 1..Len(Functions) : Len(Functions[i].body) >= 1
        /\ call.method = "generate_class" => Len(result.body[1].body) >= 1

====
